---- MODULE Spec2Model ----
(***************************************************************************)
(* scraper.py: the frontier (queue + visited set), the crawl loop of       *)
(* PlaywrightScraper.run and RequestsScraper.run, the link discovery of    *)
(* both scrape_page methods and the browser life cycle (Spec, LiveSpec);   *)
(* main from the environment to the exit code (MainSpec); the extraction   *)
(* of one page (ExtractSpec); two runs side by side (PairSpec).            *)
(***************************************************************************)
EXTENDS Integers, Sequences, FiniteSets, TLC

\* ------------------------------------------------------------------ bounds
\* Largest MAX_PAGES value the environment supplies.
MaxBudget == 3
\* Largest number of anchors one fetched page carries.
MaxLinks == 2
\* Largest number of scrape_page calls that end in an exception in one run.
MaxFail == 2
\* Largest number of keys the CONTENT_TYPES object of a job gives.
MaxToggles == 2
\* Largest number of items a page holds beyond an extractor's cap.
MaxOver == 50

\* ------------------------------------------------------------------ URLs
\* A URL string is modelled by its components; two URL strings are equal
\* iff their components are.  port "" means that the string has no ":port".
Url(s, h, p, path, f) ==
    [scheme |-> s, host |-> h, port |-> p, path |-> path, frag |-> f]

\* The value of an href attribute.  kind: "rel" (a path, possibly with a
\* fragment), "frag" (a bare "#..." reference), "empty" (href=""), "abs"
\* (an absolute URL), "nonnav" (javascript:, mailto:, tel:, data:) and "bad"
\* (a string no URL parser accepts, such as "http://[bad").
Href(k, s, h, p, path, f) ==
    [kind |-> k, scheme |-> s, host |-> h, port |-> p, path |-> path, frag |-> f]

SeedHost == "example.com"

\* TARGET_URL values of the runs explored.
Seeds ==
    { Url("https", SeedHost, "", "/", ""),
      Url("https", SeedHost, "8443", "/", "") }

NonNavSchemes == {"javascript", "mailto", "tel", "data"}

\* The sites crawled: a site is the set of href values its pages may carry.
\* Same-host pages next to links that leave the host.
LinkSite ==
    { Href("rel", "", "", "", "/a", ""),
      Href("abs", "https", SeedHost, "", "/b", ""),
      Href("rel", "", "", "", "/c", ""),
      Href("abs", "https", "other.com", "", "/c", ""),
      Href("abs", "https", "sub.example.com", "", "/a", "") }

\* Fragments, empty and non-navigable hrefs, and one no parser accepts.
FragmentSite ==
    { Href("rel", "", "", "", "/a", ""),
      Href("frag", "", "", "", "", "frag"),
      Href("empty", "", "", "", "", ""),
      Href("bad", "", "", "", "", "") }
    \cup { Href("nonnav", s, "", "", "x", "") : s \in NonNavSchemes }

\* Links to the seed host under the other scheme and an explicit port.
AuthoritySite ==
    { Href("rel", "", "", "", "/a", ""),
      Href("abs", "http", SeedHost, "", "/a", ""),
      Href("abs", "https", SeedHost, "8443", "/a", "") }

Sites == {LinkSite, FragmentSite, AuthoritySite}

Hrefs == UNION Sites

\* urlparse(u).netloc: the authority, "host" or "host:port", as a tuple.
netloc(u) == IF u.port = "" THEN <<u.host>> ELSE <<u.host, u.port>>

\* new URL(href).hostname in the page: the host alone, never the port.
hostname(u) == <<u.host>>

\* urllib.parse.urljoin(url, href) for the href kinds it accepts.
urljoin(base, h) ==
    CASE h.kind = "empty" -> base
      [] h.kind = "frag"  -> [base EXCEPT !.frag = h.frag]
      [] h.kind = "rel"   -> [base EXCEPT !.path = h.path, !.frag = h.frag]
      [] OTHER            -> Url(h.scheme, h.host, h.port, h.path, h.frag)

\* urljoin raises ValueError on a malformed authority.
UrljoinRaises(h) == h.kind = "bad"

\* a.href in the browser: the href resolved against the document URL; an
\* empty href resolves to the document URL without its fragment.
a_href(base, h) ==
    CASE h.kind = "empty" -> [base EXCEPT !.frag = ""]
      [] h.kind = "frag"  -> [base EXCEPT !.frag = h.frag]
      [] h.kind = "rel"   -> [base EXCEPT !.path = h.path, !.frag = h.frag]
      [] OTHER            -> Url(h.scheme, h.host, h.port, h.path, h.frag)

\* new URL(href) throws inside the page filter: the link is dropped.
JsUrlThrows(h) == h.kind = "bad"

\* ------------------------------------------------------------------ frontier
InQueue(q, u) == \E i \in 1..Len(q) : q[i] = u

\* Faulty variant: the page budget is taken from the configuration in every mode.
EffectiveBudgetIgnoringMode(mode, cfgmax) == cfgmax

\* self.max_pages as the constructors compute it.
EffectiveBudget(mode, cfgmax) == IF mode = "full" THEN cfgmax ELSE 1

\* Faulty variant: the loop still runs when the count has reached the budget.
HasCapacityInclusive(q, count, budget) == q # <<>> /\ count <= budget

\* The loop condition of both run methods.
HasCapacity(q, count, budget) == q # <<>> /\ count < budget

\* Faulty variant: the head is read but not removed (queue[0] for queue.pop(0)).
PopRestKeepsHead(q) == q

\* queue.pop(0): the URL taken and the queue left.
PopUrl(q) == Head(q)
PopRest(q) == Tail(q)

\* The page-side filter of PlaywrightScraper.scrape_page.
PwInScope(dom, h, link) == ~JsUrlThrows(h) /\ hostname(link) = dom

\* The scope test of RequestsScraper.scrape_page.
RqInScope(dom, link) == netloc(link) = dom

\* Faulty variant: the enqueue step no longer looks at visited.
PwEnqueueIgnoringVisited(q, v, link) ==
    IF ~InQueue(q, link) THEN Append(q, link) ELSE q

\* The enqueue step of PlaywrightScraper.scrape_page.
PwEnqueue(q, v, link) ==
    IF link \notin v /\ ~InQueue(q, link) THEN Append(q, link) ELSE q

\* Faulty variant: new links go to the head of the queue (insert(0, link)).
RqEnqueueAtHead(q, v, link) == IF link \notin v THEN <<link>> \o q ELSE q

\* The enqueue step of RequestsScraper.scrape_page.
RqEnqueue(q, v, link) == IF link \notin v THEN Append(q, link) ELSE q

\* Faulty variant: the result is appended without the "if result" test.
AppendResultAlways(ps, res, u) == Append(ps, u)

\* "if result: self.pages.append(result)"; a record stands for its url.
AppendResult(ps, res, u) == IF res = "ok" THEN Append(ps, u) ELSE ps

\* The finally block of PlaywrightScraper.run: "if self.browser: close()".
CloseBrowser(b) == IF b = "launched" THEN "closed" ELSE b

\* Faulty variant: the driver is never stopped.
StopDriverSkipped(p) == p

\* The finally block: "if hasattr(self, 'playwright'): stop()".
StopDriver(p) == IF p = "started" THEN "stopped" ELSE p

\* The "Anti-detection delay" test at the end of an iteration of
\* PlaywrightScraper.run.
PwDelay(q, count, budget) == count < budget /\ q # <<>>

\* RequestsScraper.run sleeps at the end of every iteration.
RqDelay(q, count, budget) == TRUE

\* Whether the iteration of the running scraper ends with a delay.
Delay(k, q, ps, budget) ==
    IF k = "pw" THEN PwDelay(q, Len(ps), budget) ELSE RqDelay(q, Len(ps), budget)

\* The classes of HTTP status a response carries.
StatusClasses == {"2xx", "non2xx"}

NoUrl == Url("", "", "", "", "")

\* queue, visited and pages at the call of scrape_page.
AtCall(q, v, ps) == [queue |-> q, visited |-> v, pages |-> ps]
NoCall == AtCall(<<>>, {}, <<>>)

\* The open pages after a scrape_page call that raised: nothing closes the
\* page the call opened (page.close() is the last statement of the try).
LeftOpen(n, opened) == IF opened THEN n + 1 ELSE n
NoReport == [status |-> "none", pages_count |-> 0, pages |-> <<>>]

\* The dictionary both run methods return.
MakeReport(ps) == [status |-> "completed", pages_count |-> Len(ps), pages |-> ps]

\* ------------------------------------------------------------------ main
\* An environment variable as os.environ.get returns it: None when the
\* variable is absent, else its string (NoUrl is the empty string).
Absent == [set |-> FALSE, val |-> NoUrl]
EnvValue(u) == [set |-> TRUE, val |-> u]

\* TARGET_URL and CALLBACK_URL values of the processes explored.
Targets == {Absent, EnvValue(NoUrl)} \cup { EnvValue(u) : u \in Seeds }
CallbackUrl == Url("https", "hooks.example.com", "", "/cb", "")
CallbackUrls == {Absent, EnvValue(NoUrl), EnvValue(CallbackUrl)}

\* "not value" for an environment variable: true of None and of "".
IsFalsy(v) == ~v.set \/ v.val = NoUrl

\* A line main prints on stdout, by what it is; the report line carries the
\* report.
Line(tag) == [tag |-> tag, body |-> NoReport]
ReportLine(r) == [tag |-> "report", body |-> r]

\* Faulty variant: a failed delivery is not caught and leaves main.
AfterCallbackUncaught(outcome) ==
    IF outcome = "failed" THEN "raised" ELSE "print"

\* Where main goes after the callback block: "except Exception" catches a
\* failed delivery, so main goes on to print the results.
AfterCallback(outcome) == "print"

\* ------------------------------------------------------------------ extraction
\* The extractors of extract_content, in the order they run.
Extractors ==
    <<"text", "images", "code", "links", "json", "tables", "media", "files">>
ExtractorSet == { Extractors[i] : i \in 1..Len(Extractors) }

\* The sample caps of extract_content.
TextCap == 100000
ImagesCap == 100
CodeCap == 50
LinksCap == 500
TablesCap == 20
MediaCap == 50
FilesCap == 100

\* json_ld is returned whole; every other extractor has a sample cap.
Capped == ExtractorSet \ {"json"}
Cap(e) ==
    CASE e = "text"   -> TextCap
      [] e = "images" -> ImagesCap
      [] e = "code"   -> CodeCap
      [] e = "links"  -> LinksCap
      [] e = "tables" -> TablesCap
      [] e = "media"  -> MediaCap
      [] e = "files"  -> FilesCap

\* The two fields an extractor writes into the record.
SampleField(e) ==
    CASE e = "code" -> "code_blocks"
      [] e = "json" -> "json_ld"
      [] OTHER      -> e
CountField(e) ==
    CASE e = "text"   -> "text_length"
      [] e = "images" -> "images_count"
      [] e = "code"   -> "code_count"
      [] e = "links"  -> "links_count"
      [] e = "json"   -> "json_count"
      [] e = "tables" -> "tables_count"
      [] e = "media"  -> "media_count"
      [] e = "files"  -> "files_count"

\* The default of content_types.get(key, default) for each key.
Default(e) == e \notin {"links", "files"}

\* content_types maps each key to "true", "false" or "missing" (no such key).
Toggles == {"missing", "true", "false"}

\* CONTENT_TYPES unset: main passes {} and every key is missing.
NoToggles == [e \in ExtractorSet |-> "missing"]

\* The map main falls back to when CONTENT_TYPES is no JSON.
FallbackContentTypes ==
    [e \in ExtractorSet |-> IF Default(e) THEN "true" ELSE "false"]

\* The content-type maps explored: at most MaxToggles keys given, and the
\* fallback map.
ContentTypeMaps ==
    { m \in [ExtractorSet -> Toggles] :
        Cardinality({ e \in ExtractorSet : m[e] # "missing" }) <= MaxToggles }
    \cup {FallbackContentTypes}

\* self.content_types.get(e, default).
Enabled(ct, e) == IF ct[e] = "missing" THEN Default(e) ELSE ct[e] = "true"

\* A list of matched items in document order, by the positions it holds:
\* the n items a selector matches are the positions 1..n.
Matched(n) == [first |-> 1, last |-> n]
Size(items) == items.last - items.first + 1
Min(a, b) == IF a <= b THEN a ELSE b
Max(a, b) == IF a >= b THEN a ELSE b

\* Faulty variant: the sample is the last cap items (items[-cap:]).
SliceLast(items, cap) ==
    [first |-> Max(items.first, items.last - cap + 1), last |-> items.last]

\* items[:cap].
Slice(items, cap) ==
    [first |-> items.first, last |-> Min(items.last, items.first + cap - 1)]

\* The sample an extractor stores for n matched items.
Sample(e, n) == IF e \in Capped THEN Slice(Matched(n), Cap(e)) ELSE Matched(n)

\* The record after extractor e stored its sample and its count.
WithField(r, e, d) ==
    (SampleField(e) :> Sample(e, d[e])) @@ (CountField(e) :> d[e]) @@ r

\* result as extract_content creates it.
BaseRecord(u) ==
    ("url" :> u) @@ ("title" :> "title") @@ ("extracted_at" :> "now")

\* The dictionary RequestsScraper.scrape_page returns.
RqRecord(u, d) ==
    ("url" :> u) @@ ("title" :> "title")
        @@ ("text" :> Slice(Matched(d["text"]), TextCap))
        @@ ("text_length" :> d["text"])

\* A page by the number of items each extractor's selector matches (for
\* text, the number of characters): none, a few, the cap, beyond the cap.
Docs ==
    { [e \in ExtractorSet |->
          (IF e \in Capped /\ full = 1 THEN Cap(e) ELSE 0) + extra] :
        full \in {0, 1}, extra \in {0, 1, MaxOver} }
NoDoc == [e \in ExtractorSet |-> 0]
NoRecord == [f \in {} |-> 0]

\* ------------------------------------------------------------------ state
VARIABLES
    kind,             \* "pw": PlaywrightScraper, "rq": RequestsScraper
    extraction_mode,  \* config['extraction_mode']
    cfg_max,          \* config['max_pages']
    base_url,         \* self.base_url
    max_pages,        \* self.max_pages
    domain,           \* self.domain
    queue,            \* self.queue
    visited,          \* self.visited
    pages,            \* self.pages (each record by its url)
    playwright,       \* self.playwright: "unset", "started", "stopped"
    browser,          \* self.browser: "none", "launched", "closed"
    context,          \* self.context: "none", "open"
    pc,               \* position in run
    url,              \* the local url of run, the argument of scrape_page
    nlinks,           \* anchors of the current page already processed
    result,           \* what the last scrape_page call returned
    exc,              \* an exception is propagating out of run
    report,           \* the value run returned
    errors,           \* the error-level log entries in order, each named by
                      \* the url of the scrape_page call that wrote it
    failures,         \* scrape_page calls that ended in an exception
    fetched,          \* history: the urls scrape_page was called on, in order
    discovered,       \* history: in-scope urls in order of first discovery
    setup,            \* outcome of setup_browser: "none", "ok", "failed"
    status,           \* class of the HTTP status of the current page's
                      \* response: "none", "2xx", "non2xx"
    slept,            \* the last iteration ended with the inter-page delay
    site,             \* environment: the hrefs the pages of the target carry
    offer,            \* history: the last link of the current page that passed
                      \* the scope test and reached the enqueue step
    target,           \* main: config['target_url']
    max_pages_valid,  \* main: MAX_PAGES is unset or a string int() accepts
    callback_url,     \* main: config['callback_url']
    stdout,           \* main: the lines main itself printed, in order
    exit_code,        \* main: <<>> while the process runs, then <<code>>
    constructed,      \* main: a scraper object was constructed
    delivery,         \* main: outcome of the callback POST: "none",
                      \* "skipped", "sent", "failed"
    content_types,    \* self.content_types
    doc,              \* environment: the content of the page being extracted
    record,           \* the local result of extract_content / the dictionary
                      \* RequestsScraper.scrape_page builds
    xi,               \* extract_content: index of the next extractor (0: none)
    throws,           \* history: the extractor whose evaluate raised
    kind2,            \* second run: its scraper class
    content_types2,   \* second run: self.content_types
    queue2,           \* second run: self.queue
    visited2,         \* second run: self.visited
    pages2,           \* second run: self.pages
    fetched2,         \* second run: the urls scrape_page was called on
    at_call,          \* history: queue, visited and pages as they were when
                      \* the running scrape_page call was made
    open_pages        \* browser pages opened by new_page and not closed

vars == <<kind, extraction_mode, cfg_max, base_url, max_pages, domain, queue,
          visited, pages, playwright, browser, context, pc, url, nlinks,
          result, exc, report, errors, failures, fetched, discovered, site,
          offer, setup, status, slept, target, max_pages_valid, callback_url,
          stdout,
          exit_code, constructed, delivery, content_types, doc, record, xi,
          throws, kind2, content_types2, queue2, visited2, pages2, fetched2,
          at_call, open_pages>>

config == <<kind, extraction_mode, cfg_max, base_url, max_pages, domain,
            site>>
session == <<playwright, browser, context, setup>>
process == <<target, max_pages_valid, callback_url, stdout, exit_code,
             constructed, delivery>>
extraction == <<content_types, doc, record, xi, throws>>
second == <<kind2, content_types2, queue2, visited2, pages2, fetched2>>
call == <<at_call, open_pages>>

Modes == {"single", "full"}
Budgets == {-1} \cup (0..MaxBudget)
SetupSteps == {"start", "launch", "new_context", "add_init_script", "log"}

\* No scrape_page call is running and no browser page is open.
CallIdle ==
    /\ at_call = NoCall
    /\ open_pages = 0

\* extract_content is not running.
ExtractionIdle ==
    /\ content_types = NoToggles
    /\ doc = NoDoc
    /\ record = NoRecord
    /\ xi = 0
    /\ throws = "none"

\* No second run is compared with this one.
SecondIdle ==
    /\ kind2 = kind
    /\ content_types2 = content_types
    /\ queue2 = <<>>
    /\ visited2 = {}
    /\ pages2 = <<>>
    /\ fetched2 = <<>>

\* The scraper object after its construction, as main calls run on it.
Init ==
    /\ kind \in {"pw", "rq"}
    /\ extraction_mode \in Modes
    /\ cfg_max \in Budgets
    /\ base_url \in Seeds
    /\ site \in Sites
    /\ max_pages = EffectiveBudget(extraction_mode, cfg_max)
    /\ domain = netloc(base_url)
    /\ queue = <<base_url>>
    /\ visited = {}
    /\ pages = <<>>
    /\ playwright = "unset"
    /\ browser = "none"
    /\ context = "none"
    /\ pc = IF kind = "pw" THEN "setup" ELSE "loop"
    /\ url = NoUrl
    /\ nlinks = 0
    /\ result = "none"
    /\ exc = FALSE
    /\ report = NoReport
    /\ errors = <<>>
    /\ failures = 0
    /\ fetched = <<>>
    /\ discovered = <<base_url>>
    /\ offer = NoUrl
    /\ setup = "none"
    /\ status = "none"
    /\ slept = FALSE
    /\ target = EnvValue(base_url)
    /\ max_pages_valid = TRUE
    /\ callback_url = Absent
    /\ stdout = <<Line("starting")>>
    /\ exit_code = <<>>
    /\ constructed = TRUE
    /\ delivery = "none"
    /\ ExtractionIdle
    /\ SecondIdle
    /\ CallIdle

\* The scope test of the running scraper applied to href h of the current page.
LinkAccepted(h) ==
    IF kind = "pw"
      THEN PwInScope(domain, h, a_href(url, h))
      ELSE RqInScope(domain, urljoin(url, h))

\* ------------------------------------------------------------------ actions
\* PlaywrightScraper.setup_browser, called first in run: each of its awaits
\* either completes or raises, and a raise leaves the later fields unset.
SetupBrowser ==
    /\ pc = "setup"
    /\ \E failAt \in SetupSteps \cup {"none"} :
        /\ playwright' = IF failAt = "start" THEN "unset" ELSE "started"
        /\ browser' = IF failAt \in {"start", "launch"} THEN "none" ELSE "launched"
        /\ context' = IF failAt \in {"none", "add_init_script", "log"}
                         THEN "open" ELSE "none"
        /\ setup' = IF failAt = "none" THEN "ok" ELSE "failed"
        /\ exc' = (failAt # "none")
        /\ pc' = IF failAt = "none" THEN "loop" ELSE "finally"
    /\ UNCHANGED <<call, config, process, extraction, second, status, slept, queue, visited, pages, url, nlinks, result, report,
                   errors, failures, fetched, discovered, offer>>

\* The while condition is false: PlaywrightScraper.run falls into its
\* finally block, RequestsScraper.run returns its report.
LoopExit ==
    /\ pc = "loop"
    /\ ~HasCapacity(queue, Len(pages), max_pages)
    /\ IF kind = "pw"
         THEN pc' = "finally" /\ report' = report
         ELSE pc' = "done" /\ report' = MakeReport(pages)
    /\ UNCHANGED <<call, config, process, extraction, second, session, status, slept, queue, visited, pages, url, nlinks, result,
                   exc, errors, failures, fetched, discovered, offer>>

\* One iteration whose popped url is already visited: "continue".
LoopSkip ==
    /\ pc = "loop"
    /\ HasCapacity(queue, Len(pages), max_pages)
    /\ PopUrl(queue) \in visited
    /\ url' = PopUrl(queue)
    /\ queue' = PopRest(queue)
    /\ slept' = FALSE
    /\ UNCHANGED <<call, config, process, extraction, second, session, status, visited, pages, pc, nlinks, result, exc,
                   report, errors, failures, fetched, discovered, offer>>

\* One iteration up to the call of scrape_page: pop, mark visited, call.
LoopPop ==
    /\ pc = "loop"
    /\ HasCapacity(queue, Len(pages), max_pages)
    /\ PopUrl(queue) \notin visited
    /\ url' = PopUrl(queue)
    /\ queue' = PopRest(queue)
    /\ visited' = visited \cup {url'}
    /\ fetched' = Append(fetched, url')
    /\ nlinks' = 0
    /\ offer' = NoUrl
    /\ status' = "none"
    /\ slept' = FALSE
    /\ pc' = "scrape"
    /\ at_call' = AtCall(queue', visited', pages)
    /\ UNCHANGED <<open_pages, config, process, extraction, second, session, pages, result, exc, report, errors,
                   failures, discovered>>

\* scrape_page returns None from its except clause, and run goes on to the
\* end of the iteration.
ReturnNone ==
    /\ failures < MaxFail
    /\ failures' = failures + 1
    /\ errors' = Append(errors, url)
    /\ result' = "None"
    /\ pages' = AppendResult(pages, "None", url)
    /\ nlinks' = 0
    /\ offer' = NoUrl
    /\ status' = "none"
    /\ slept' = Delay(kind, queue, pages', max_pages)
    /\ pc' = "loop"
    /\ at_call' = NoCall

\* The fetch fails before any link is read (new_page, goto, evaluate or
\* extract_content raises; session.get or the title lookup raises).
ScrapeFetchFail ==
    /\ pc = "scrape"
    /\ ReturnNone
    /\ \E opened \in IF kind = "pw" THEN BOOLEAN ELSE {FALSE} :
          open_pages' = LeftOpen(open_pages, opened)
    /\ UNCHANGED <<config, process, extraction, second, session, queue, visited, url, exc, report, fetched,
                   discovered>>

\* The page is fetched and its content extracted.  A response arrives with
\* any HTTP status: neither page.goto nor session.get raises on a non-2xx
\* status, and no line of either scrape_page reads the status.
ScrapeFetchOk ==
    /\ pc = "scrape"
    /\ status' \in StatusClasses
    /\ pc' = "links"
    /\ open_pages' = IF kind = "pw" THEN open_pages + 1 ELSE open_pages
    /\ UNCHANGED <<at_call, config, process, extraction, second, session, slept, queue, visited, pages, url, nlinks, result,
                   exc, report, errors, failures, fetched, discovered, offer>>

\* discovered, extended by a link that passed the scope test.
Discover(d, link, inscope) ==
    IF inscope /\ ~InQueue(d, link) THEN Append(d, link) ELSE d

\* One anchor of the page in the link loop of PlaywrightScraper.scrape_page.
PwLink(h) ==
    LET link == a_href(url, h)
        ok   == PwInScope(domain, h, link)
    IN  /\ queue' = IF ok THEN PwEnqueue(queue, visited, link) ELSE queue
        /\ offer' = IF ok THEN link ELSE offer
        /\ discovered' = Discover(discovered, link, ok)
        /\ nlinks' = nlinks + 1
        /\ UNCHANGED <<pages, pc, result, errors, failures, status, slept,
                       at_call>>

\* One anchor of the page in the link loop of RequestsScraper.scrape_page;
\* a ValueError of urljoin ends scrape_page in its except clause.
RqLink(h) ==
    IF UrljoinRaises(h)
      THEN /\ ReturnNone
           /\ UNCHANGED <<queue, discovered>>
      ELSE LET link == urljoin(url, h)
               ok   == RqInScope(domain, link)
           IN  /\ queue' = IF ok THEN RqEnqueue(queue, visited, link) ELSE queue
               /\ offer' = IF ok THEN link ELSE offer
               /\ discovered' = Discover(discovered, link, ok)
               /\ nlinks' = nlinks + 1
               /\ UNCHANGED <<pages, pc, result, errors, failures, status,
                               slept, at_call>>

ScrapeLink ==
    /\ pc = "links"
    /\ extraction_mode = "full"
    /\ nlinks < MaxLinks
    /\ \E h \in site : IF kind = "pw" THEN PwLink(h) ELSE RqLink(h)
    /\ UNCHANGED <<open_pages, config, process, extraction, second, session, visited, url, exc, report, fetched>>

\* scrape_page returns its record, run appends it.
ScrapeReturn ==
    /\ pc = "links"
    /\ result' = "ok"
    /\ pages' = AppendResult(pages, "ok", url)
    /\ nlinks' = 0
    /\ offer' = NoUrl
    /\ status' = "none"
    /\ slept' = Delay(kind, queue, pages', max_pages)
    /\ pc' = "loop"
    /\ at_call' = NoCall
    /\ open_pages' = IF kind = "pw" THEN open_pages - 1 ELSE open_pages
    /\ UNCHANGED <<config, process, extraction, second, session, queue, visited, url, exc, report, errors,
                   failures, fetched, discovered>>

\* page.close() raises after the links were read: scrape_page returns None.
ScrapeCloseFail ==
    /\ pc = "links"
    /\ kind = "pw"
    /\ ReturnNone
    /\ open_pages' \in {open_pages - 1, open_pages}
    /\ UNCHANGED <<config, process, extraction, second, session, queue, visited, url, exc, report, fetched,
                   discovered>>

\* An exception that "except Exception" does not catch (a cancellation, an
\* interrupt) leaves the loop: through finally in PlaywrightScraper.run,
\* straight out of RequestsScraper.run.
LoopRaise ==
    /\ pc = "scrape"
    /\ exc' = TRUE
    /\ pc' = IF kind = "pw" THEN "finally" ELSE "raised"
    /\ \E opened \in IF kind = "pw" THEN BOOLEAN ELSE {FALSE} :
          open_pages' = LeftOpen(open_pages, opened)
    /\ UNCHANGED <<at_call, config, process, extraction, second, session, status, slept, queue, visited, pages, url, nlinks, result,
                   report, errors, failures, fetched, discovered, offer>>

\* The finally block of PlaywrightScraper.run, then the return of the
\* report or the propagation of the exception.
Finally ==
    /\ pc = "finally"
    /\ browser' = CloseBrowser(browser)
    /\ playwright' = StopDriver(playwright)
    /\ pc' = IF exc THEN "raised" ELSE "done"
    /\ report' = IF exc THEN report ELSE MakeReport(pages)
    /\ open_pages' = IF browser = "launched" THEN 0 ELSE open_pages
    /\ UNCHANGED <<at_call, config, process, extraction, second, context, setup, status, slept, queue, visited, pages, url, nlinks, result,
                   exc, errors, failures, fetched, discovered, offer>>

Next ==
    \/ SetupBrowser
    \/ LoopExit
    \/ LoopSkip
    \/ LoopPop
    \/ ScrapeFetchFail
    \/ ScrapeFetchOk
    \/ ScrapeLink
    \/ ScrapeReturn
    \/ ScrapeCloseFail
    \/ LoopRaise
    \/ Finally

Spec == Init /\ [][Next]_vars

\* Every await of the single flow completes or times out, so a run that can
\* take a step takes one.
LiveSpec == Spec /\ WF_vars(Next)

\* ------------------------------------------------------------------ main()
\* The process at the start of main, before the environment is looked at.
MainInit ==
    /\ kind \in {"pw", "rq"}
    /\ extraction_mode \in Modes
    /\ max_pages_valid \in BOOLEAN
    /\ cfg_max \in IF max_pages_valid THEN Budgets ELSE {0}
    /\ site \in Sites
    /\ target \in Targets
    /\ callback_url \in CallbackUrls
    /\ base_url = NoUrl
    /\ max_pages = 0
    /\ domain = <<>>
    /\ queue = <<>>
    /\ visited = {}
    /\ pages = <<>>
    /\ playwright = "unset"
    /\ browser = "none"
    /\ context = "none"
    /\ pc = "main"
    /\ url = NoUrl
    /\ nlinks = 0
    /\ result = "none"
    /\ exc = FALSE
    /\ report = NoReport
    /\ errors = <<>>
    /\ failures = 0
    /\ fetched = <<>>
    /\ discovered = <<>>
    /\ offer = NoUrl
    /\ setup = "none"
    /\ status = "none"
    /\ slept = FALSE
    /\ stdout = <<>>
    /\ exit_code = <<>>
    /\ constructed = FALSE
    /\ delivery = "none"
    /\ ExtractionIdle
    /\ SecondIdle
    /\ CallIdle

\* main up to the call of run.  int() of a MAX_PAGES that is no integer
\* raises while config is built, before anything else is looked at.
\* Without a target main prints the error line and exits with code 1; else
\* it prints the starting line and constructs the scraper.
MainStart ==
    /\ pc = "main"
    /\ IF ~max_pages_valid
         THEN /\ exit_code' = <<1>>
              /\ pc' = "exited"
              /\ UNCHANGED <<stdout, base_url, max_pages, domain, queue,
                             discovered, constructed>>
         ELSE IF IsFalsy(target)
         THEN /\ stdout' = Append(stdout, Line("error"))
              /\ exit_code' = <<1>>
              /\ pc' = "exited"
              /\ UNCHANGED <<base_url, max_pages, domain, queue, discovered,
                             constructed>>
         ELSE /\ stdout' = Append(stdout, Line("starting"))
              /\ constructed' = TRUE
              /\ base_url' = target.val
              /\ max_pages' = EffectiveBudget(extraction_mode, cfg_max)
              /\ domain' = netloc(target.val)
              /\ queue' = <<target.val>>
              /\ discovered' = <<target.val>>
              /\ pc' = IF kind = "pw" THEN "setup" ELSE "loop"
              /\ UNCHANGED exit_code
    /\ UNCHANGED <<call, kind, extraction_mode, cfg_max, site, target,
                   max_pages_valid, callback_url, delivery, session,
                   extraction, second, visited, pages, url, nlinks, result,
                   exc, report, errors, failures, fetched, offer, status,
                   slept>>

\* The callback block of main: no POST without a callback URL; a POST that
\* raises is caught and logged.
MainCallback ==
    /\ pc = "done"
    /\ \E outcome \in IF IsFalsy(callback_url) THEN {"skipped"}
                                               ELSE {"sent", "failed"} :
        /\ delivery' = outcome
        /\ stdout' = IF outcome = "failed"
                       THEN Append(stdout, Line("callback_failed"))
                       ELSE stdout
        /\ pc' = AfterCallback(outcome)
    /\ UNCHANGED <<call, config, target, max_pages_valid, callback_url, exit_code,
                   constructed,
                   session, extraction, second, queue, visited, pages, url,
                   nlinks, result, exc, report, errors, failures, fetched,
                   discovered, offer, status, slept>>

\* The end of main: the sentinel line, the report line, and the return.
MainPrint ==
    /\ pc = "print"
    /\ stdout' = stdout \o <<Line("sentinel"), ReportLine(report)>>
    /\ exit_code' = <<0>>
    /\ pc' = "exited"
    /\ UNCHANGED <<call, config, target, max_pages_valid, callback_url, constructed, delivery,
                   session, extraction, second, queue, visited, pages, url,
                   nlinks, result, exc, report, errors, failures, fetched,
                   discovered, offer, status, slept>>

\* An exception leaves main: the interpreter prints the traceback on stderr
\* and exits with code 1.
MainCrash ==
    /\ pc = "raised"
    /\ exit_code' = <<1>>
    /\ pc' = "exited"
    /\ UNCHANGED <<call, config, target, max_pages_valid, callback_url, stdout, constructed,
                   delivery, session, extraction, second, queue, visited,
                   pages, url, nlinks, result, exc, report, errors, failures,
                   fetched, discovered, offer, status, slept>>

MainNext ==
    \/ MainStart
    \/ Next
    \/ MainCallback
    \/ MainPrint
    \/ MainCrash

MainSpec == MainInit /\ [][MainNext]_vars

\* ------------------------------------------------------------------ extraction of one page
\* A single-mode run inside scrape_page on the seed, the page fetched and
\* its content about to be extracted.
ExtractInit ==
    /\ kind \in {"pw", "rq"}
    /\ extraction_mode = "single"
    /\ cfg_max = 1
    /\ base_url \in Seeds
    /\ site = LinkSite
    /\ max_pages = EffectiveBudget(extraction_mode, cfg_max)
    /\ domain = netloc(base_url)
    /\ queue = <<>>
    /\ visited = {base_url}
    /\ pages = <<>>
    /\ playwright = IF kind = "pw" THEN "started" ELSE "unset"
    /\ browser = IF kind = "pw" THEN "launched" ELSE "none"
    /\ context = IF kind = "pw" THEN "open" ELSE "none"
    /\ setup = IF kind = "pw" THEN "ok" ELSE "none"
    /\ pc = "extract"
    /\ url = base_url
    /\ nlinks = 0
    /\ result = "none"
    /\ exc = FALSE
    /\ report = NoReport
    /\ errors = <<>>
    /\ failures = 0
    /\ fetched = <<base_url>>
    /\ discovered = <<base_url>>
    /\ offer = NoUrl
    /\ status = "2xx"
    /\ slept = FALSE
    /\ target = EnvValue(base_url)
    /\ max_pages_valid = TRUE
    /\ callback_url = Absent
    /\ stdout = <<Line("starting")>>
    /\ exit_code = <<>>
    /\ constructed = TRUE
    /\ delivery = "none"
    /\ content_types \in ContentTypeMaps
    /\ doc \in Docs
    /\ record = NoRecord
    /\ xi = 0
    /\ throws = "none"
    /\ SecondIdle
    /\ at_call = AtCall(queue, visited, pages)
    /\ open_pages = IF kind = "pw" THEN 1 ELSE 0

\* extract_content creates result with url, title and extracted_at.
ExtractStart ==
    /\ pc = "extract"
    /\ kind = "pw"
    /\ xi = 0
    /\ record' = BaseRecord(url)
    /\ xi' = 1
    /\ UNCHANGED <<call, config, process, second, session, content_types, doc,
                   throws, queue, visited, pages, pc, url, nlinks, result,
                   exc, report, errors, failures, fetched, discovered, offer,
                   status, slept>>

\* The block of the next extractor: skipped when the extractor is disabled,
\* else its evaluate returns and the sample and the count are stored.
ExtractField ==
    /\ pc = "extract"
    /\ xi \in 1..Len(Extractors)
    /\ record' = IF Enabled(content_types, Extractors[xi])
                   THEN WithField(record, Extractors[xi], doc)
                   ELSE record
    /\ xi' = xi + 1
    /\ UNCHANGED <<call, config, process, second, session, content_types, doc,
                   throws, queue, visited, pages, pc, url, nlinks, result,
                   exc, report, errors, failures, fetched, discovered, offer,
                   status, slept>>

\* The evaluate of the next extractor raises: nothing in extract_content
\* catches it, and scrape_page returns None from its except clause.
ExtractRaise ==
    /\ pc = "extract"
    /\ xi \in 1..Len(Extractors)
    /\ Enabled(content_types, Extractors[xi])
    /\ throws' = Extractors[xi]
    /\ ReturnNone
    /\ UNCHANGED <<open_pages, config, process, second, session, content_types, doc,
                   record, xi, queue, visited, url, exc, report, fetched,
                   discovered>>

\* extract_content returns result to scrape_page.
ExtractDone ==
    /\ pc = "extract"
    /\ xi = Len(Extractors) + 1
    /\ pc' = "links"
    /\ UNCHANGED <<call, config, process, second, session, extraction, queue,
                   visited, pages, url, nlinks, result, exc, report, errors,
                   failures, fetched, discovered, offer, status, slept>>

\* RequestsScraper.scrape_page builds its dictionary from the parsed page.
RqExtract ==
    /\ pc = "extract"
    /\ kind = "rq"
    /\ record' = RqRecord(url, doc)
    /\ pc' = "links"
    /\ UNCHANGED <<call, config, process, second, session, content_types, doc, xi,
                   throws, queue, visited, pages, url, nlinks, result, exc,
                   report, errors, failures, fetched, discovered, offer,
                   status, slept>>

ExtractNext ==
    \/ ExtractStart
    \/ ExtractField
    \/ ExtractRaise
    \/ ExtractDone
    \/ RqExtract
    \/ ScrapeReturn

ExtractSpec == ExtractInit /\ [][ExtractNext]_vars

\* ------------------------------------------------------------------ two runs side by side
\* Two runs over the same site with the same seed, mode and budget, each
\* with its own scraper class and content-type map.  One step takes both
\* runs to the end of their next scrape_page call, on the same page
\* content and fetch outcome, for as long as they have called scrape_page
\* on the same URLs.

\* The content-type keys the two runs may differ in, and their maps.
PairKeys == {"text", "links"}
PairMaps ==
    {NoToggles}
    \cup { [NoToggles EXCEPT ![e] = IF Default(e) THEN "false" ELSE "true"] :
             e \in PairKeys }

\* What a fetch meets: a failure before the page is read, a page that
\* breaks one extractor, or a page that breaks none.
PageKinds ==
    {[fetch |-> "fail", throws |-> "none"]}
    \cup { [fetch |-> "ok", throws |-> t] : t \in PairKeys \cup {"none"} }

\* The anchors of one fetched page, in document order.
HrefSeqs(hs) == UNION { [1..n -> hs] : n \in 0..MaxLinks }

\* extract_content raises when the extractor the page breaks is enabled.
ExtractRaises(ct, t) == t # "none" /\ Enabled(ct, t)

\* The link loop of PlaywrightScraper.scrape_page over the anchors hs.
RECURSIVE PwLinks(_, _, _, _, _)
PwLinks(q, v, dom, u, hs) ==
    IF hs = <<>>
      THEN q
      ELSE LET link == a_href(u, Head(hs))
               q1   == IF PwInScope(dom, Head(hs), link)
                         THEN PwEnqueue(q, v, link) ELSE q
           IN  PwLinks(q1, v, dom, u, Tail(hs))

\* The link loop of RequestsScraper.scrape_page: the queue it leaves, and
\* whether urljoin raised on the way.
RECURSIVE RqLinks(_, _, _, _, _)
RqLinks(q, v, dom, u, hs) ==
    IF hs = <<>>
      THEN [queue |-> q, raised |-> FALSE]
      ELSE IF UrljoinRaises(Head(hs))
             THEN [queue |-> q, raised |-> TRUE]
             ELSE LET link == urljoin(u, Head(hs))
                      q1   == IF RqInScope(dom, link)
                                THEN RqEnqueue(q, v, link) ELSE q
                  IN  RqLinks(q1, v, dom, u, Tail(hs))

\* scrape_page(u) of scraper class k: what it returns and the queue it
\* leaves.  page: the fetch outcome, the extractor the page breaks, and the
\* anchors.
ScrapePage(k, ct, dom, mode, u, q, v, page) ==
    IF page.fetch = "fail"
      THEN [result |-> "None", queue |-> q]
      ELSE IF k = "pw"
             THEN IF ExtractRaises(ct, page.throws)
                    THEN [result |-> "None", queue |-> q]
                    ELSE [result |-> "ok",
                          queue  |-> IF mode = "full"
                                       THEN PwLinks(q, v, dom, u, page.hrefs)
                                       ELSE q]
             ELSE LET r == IF mode = "full"
                             THEN RqLinks(q, v, dom, u, page.hrefs)
                             ELSE [queue |-> q, raised |-> FALSE]
                  IN  [result |-> IF r.raised THEN "None" ELSE "ok",
                       queue  |-> r.queue]

\* The loop of run from its test up to the end of the next iteration that
\* calls scrape_page: iterations that "continue" are passed over.
RECURSIVE Advance(_, _, _, _, _, _, _)
Advance(k, ct, dom, mode, budget, st, page) ==
    IF ~HasCapacity(st.queue, Len(st.pages), budget)
      THEN st
      ELSE LET u  == PopUrl(st.queue)
               q1 == PopRest(st.queue)
           IN  IF u \in st.visited
                 THEN Advance(k, ct, dom, mode, budget,
                              [st EXCEPT !.queue = q1], page)
                 ELSE LET v1 == st.visited \cup {u}
                          sp == ScrapePage(k, ct, dom, mode, u, q1, v1, page)
                      IN  [queue   |-> sp.queue,
                           visited |-> v1,
                           pages   |-> AppendResult(st.pages, sp.result, u),
                           fetched |-> Append(st.fetched, u)]

PairInit ==
    /\ kind \in {"pw", "rq"}
    /\ kind2 \in {kind, "rq"}
    /\ content_types \in PairMaps
    /\ content_types2 \in PairMaps
    /\ kind # kind2 => content_types = content_types2
    /\ kind = kind2 =>
          (content_types = NoToggles /\ content_types2 # NoToggles)
    /\ extraction_mode \in Modes
    /\ cfg_max \in Budgets
    /\ base_url \in Seeds
    /\ site \in Sites
    /\ max_pages = EffectiveBudget(extraction_mode, cfg_max)
    /\ domain = netloc(base_url)
    /\ queue = <<base_url>>
    /\ queue2 = <<base_url>>
    /\ visited = {}
    /\ visited2 = {}
    /\ pages = <<>>
    /\ pages2 = <<>>
    /\ fetched = <<>>
    /\ fetched2 = <<>>
    /\ playwright = IF kind = "pw" THEN "started" ELSE "unset"
    /\ browser = IF kind = "pw" THEN "launched" ELSE "none"
    /\ context = IF kind = "pw" THEN "open" ELSE "none"
    /\ setup = IF kind = "pw" THEN "ok" ELSE "none"
    /\ pc = "loop"
    /\ url = NoUrl
    /\ nlinks = 0
    /\ result = "none"
    /\ exc = FALSE
    /\ report = NoReport
    /\ errors = <<>>
    /\ failures = 0
    /\ discovered = <<base_url>>
    /\ offer = NoUrl
    /\ status = "none"
    /\ slept = FALSE
    /\ target = EnvValue(base_url)
    /\ max_pages_valid = TRUE
    /\ callback_url = Absent
    /\ stdout = <<Line("starting")>>
    /\ exit_code = <<>>
    /\ constructed = TRUE
    /\ delivery = "none"
    /\ doc = NoDoc
    /\ record = NoRecord
    /\ xi = 0
    /\ throws = "none"
    /\ CallIdle

\* The fields of a run the loop works on.
RunState(q, v, ps, f) ==
    [queue |-> q, visited |-> v, pages |-> ps, fetched |-> f]

\* Both runs up to the end of their next scrape_page call.
PairStep ==
    /\ pc = "loop"
    /\ fetched = fetched2
    /\ \/ HasCapacity(queue, Len(pages), max_pages)
       \/ HasCapacity(queue2, Len(pages2), max_pages)
    /\ \E pk \in PageKinds :
       \E hs \in IF pk.fetch = "fail" THEN {<<>>} ELSE HrefSeqs(site) :
       \E s1 \in { Advance(kind, content_types, domain, extraction_mode,
                           max_pages,
                           RunState(queue, visited, pages, fetched),
                           [fetch |-> pk.fetch, throws |-> pk.throws,
                            hrefs |-> hs]) } :
       \E s2 \in { Advance(kind2, content_types2, domain, extraction_mode,
                           max_pages,
                           RunState(queue2, visited2, pages2, fetched2),
                           [fetch |-> pk.fetch, throws |-> pk.throws,
                            hrefs |-> hs]) } :
        /\ (pk.fetch = "fail" \/ pk.throws # "none") => failures < MaxFail
        /\ failures' = IF pk.fetch = "fail" \/ pk.throws # "none"
                         THEN failures + 1 ELSE failures
        /\ throws' = IF pk.throws # "none" THEN pk.throws ELSE throws
        /\ queue' = s1.queue
        /\ visited' = s1.visited
        /\ pages' = s1.pages
        /\ fetched' = s1.fetched
        /\ queue2' = s2.queue
        /\ visited2' = s2.visited
        /\ pages2' = s2.pages
        /\ fetched2' = s2.fetched
    /\ UNCHANGED <<call, config, process, session, content_types, doc, record, xi,
                   kind2, content_types2, pc, url, nlinks, result, exc,
                   report, errors, discovered, offer, status, slept>>

\* Both loops have ended and the runs return.
PairEnd ==
    /\ pc = "loop"
    /\ ~HasCapacity(queue, Len(pages), max_pages)
    /\ ~HasCapacity(queue2, Len(pages2), max_pages)
    /\ pc' = "done"
    /\ report' = MakeReport(pages)
    /\ UNCHANGED <<call, config, process, session, extraction, second, queue,
                   visited, pages, url, nlinks, result, exc, errors,
                   failures, fetched, discovered, offer, status, slept>>

PairNext ==
    \/ PairStep
    \/ PairEnd

PairSpec == PairInit /\ [][PairNext]_vars

\* ------------------------------------------------------------------ claims
Count(q, u) == Cardinality({ i \in 1..Len(q) : q[i] = u })

IsPrefix(s, t) == Len(s) <= Len(t) /\ \A i \in 1..Len(s) : s[i] = t[i]

Last(q) == q[Len(q)]

Range(q) == { q[i] : i \in 1..Len(q) }

\* C1: once a URL is in visited, scrape_page is never called on it again and
\* no step adds an occurrence of it to the queue, in either scraper.
C1_VisitedNeverAgain ==
    [][ /\ \A u \in visited : Count(queue', u) <= Count(queue, u)
        /\ fetched' # fetched => Last(fetched') \notin visited ]_vars

\* A page offered a link to an earlier, already visited page, and the queue
\* does not hold it.
C1_Witness ==
    /\ pc = "links"
    /\ offer # NoUrl
    /\ offer # url
    /\ offer \in visited
    /\ ~InQueue(queue, offer)

\* C2: the pending queue holds each URL at most once, in both scrapers.
C2_QueueHasNoDuplicates ==
    \A i, j \in 1..Len(queue) : i # j => queue[i] # queue[j]

\* C3: the URLs are fetched in the order of their first discovery (the
\* fetched sequence is a prefix of the discovery sequence), and pages and
\* the report list the fetched URLs that succeeded in that same order.
C3_Fifo ==
    /\ IsPrefix(fetched, discovered)
    /\ pages = SelectSeq(fetched, LAMBDA u : InQueue(pages, u))
    /\ pc = "done" => report.pages = pages

\* The seed discovered /a and /#frag, /a then discovered /a#frag: the URL
\* queued before /a's discovery is fetched before the one /a discovered.
C3_Witness ==
    /\ Len(fetched) = 4
    /\ fetched[2] = [base_url EXCEPT !.path = "/a"]
    /\ fetched[3] = [base_url EXCEPT !.frag = "frag"]
    /\ fetched[4] = [base_url EXCEPT !.path = "/a", !.frag = "frag"]
    /\ Len(pages) >= 2

\* C4: in full mode with budget N >= 1 pages never holds more than N
\* records, and a run without a failed fetch that ends with URLs left in the
\* queue has fetched exactly N pages and reports N records.
C4_Budget ==
    (extraction_mode = "full" /\ max_pages >= 1) =>
        /\ Len(pages) <= max_pages
        /\ (pc = "done" /\ failures = 0 /\ queue # <<>>) =>
              /\ Len(fetched) = max_pages
              /\ Len(pages) = max_pages
              /\ report.pages_count = max_pages

C4_Witness ==
    /\ extraction_mode = "full"
    /\ max_pages = 3
    /\ pc = "done"
    /\ failures = 0
    /\ Len(queue) >= 2
    /\ report.pages_count = 3

\* C5: a scrape_page call that returns None logs one error entry for its url,
\* appends no record, leaves run in its loop without an exception, and the
\* next iteration pops the head of a non-empty queue.
C5_FailedFetchIsSkipped ==
    [][ /\ failures' > failures =>
              /\ result' = "None"
              /\ pages' = pages
              /\ errors' = Append(errors, url)
              /\ exc' = FALSE
              /\ pc' = "loop"
        /\ (pc = "loop" /\ result = "None" /\ queue # <<>>) =>
              /\ url' = Head(queue)
              /\ queue' = Tail(queue) ]_vars

\* After a failed fetch the next queued URL is being scraped, and the failed
\* one has an error entry and no record.
C5_Witness ==
    /\ pc = "scrape"
    /\ Len(fetched) >= 2
    /\ errors = <<fetched[Len(fetched) - 1]>>
    /\ ~InQueue(pages, errors[1])
    /\ pages # <<>>

C7_SingleAlwaysOneRecord ==
    (extraction_mode = "single" /\ pc = "done") =>
        /\ report.pages_count = 1
        /\ report.pages = <<base_url>>

\* C7 as amended: in single mode the budget is 1, nothing but the seed is
\* ever queued or fetched, and the report holds the record of the seed if
\* its fetch succeeded and no record if it failed.
C7_SingleMode ==
    extraction_mode = "single" =>
        /\ max_pages = 1
        /\ queue \in {<<>>, <<base_url>>}
        /\ IsPrefix(fetched, <<base_url>>)
        /\ pc = "done" =>
              /\ fetched = <<base_url>>
              /\ report.pages_count = Len(report.pages)
              /\ report.pages = IF result = "ok" THEN <<base_url>> ELSE <<>>

C7_Witness ==
    /\ extraction_mode = "single"
    /\ cfg_max = 3
    /\ pc = "done"
    /\ report.pages_count = 1
    /\ report.pages = <<base_url>>

\* C8: every queued URL has the seed's host, and while the links of a page
\* are read a link passes the scope test iff its resolved host equals the
\* seed's host, whatever its scheme and port.
C8_ScopeIsHostEquality ==
    /\ \A i \in 1..Len(queue) : queue[i].host = base_url.host
    /\ (pc = "links" /\ extraction_mode = "full") =>
          \A h \in site : h.kind # "bad" =>
              (LinkAccepted(h) <=> urljoin(url, h).host = base_url.host)

\* C9: no URL in the queue or in visited carries a fragment.
C9_NoFragmentInFrontier ==
    \A u \in Range(queue) \cup visited : u.frag = ""

C11_SetupFailureReported ==
    /\ (setup = "failed" /\ pc \in {"raised", "exited"}) =>
          report.status = "error"
    /\ report.status = "completed" => setup # "failed"

\* C12: a page whose response has a non-2xx status ends its scrape_page call
\* as a failure: None is returned and no record is appended.
C12_Non2xxIsFailure ==
    [][ (pc = "links" /\ status = "non2xx" /\ pc' = "loop") =>
            (result' = "None" /\ pages' = pages) ]_vars

\* C13: an iteration ends with the inter-page delay only if the queue is
\* non-empty and the page count is below the budget, in both scrapers.
C13_NoDelayAfterFinalPage ==
    slept => (queue # <<>> /\ Len(pages) < max_pages)

\* C16: when CALLBACK_URL is set and the delivery fails, the failure is
\* logged once and main goes on: the report is the completed report of the
\* run, and the process ends with exit code 0 after printing the sentinel
\* line directly followed by the report line, each exactly once.
C16_CallbackFailureNotFatal ==
    delivery = "failed" =>
        /\ pc \in {"print", "exited"}
        /\ report = MakeReport(pages)
        /\ Count(stdout, Line("callback_failed")) = 1
        /\ pc = "exited" =>
              /\ exit_code = <<0>>
              /\ Count(stdout, Line("sentinel")) = 1
              /\ Cardinality({ i \in 1..Len(stdout) : stdout[i].tag = "report" }) = 1
              /\ SubSeq(stdout, Len(stdout) - 1, Len(stdout))
                    = <<Line("sentinel"), ReportLine(report)>>

\* A crawl of two pages whose callback delivery failed has exited.
C16_Witness ==
    /\ delivery = "failed"
    /\ pc = "exited"
    /\ callback_url = EnvValue(CallbackUrl)
    /\ report.pages_count = 2
    /\ Len(stdout) = 4

\* C17: with TARGET_URL absent or empty, whatever the other variables are
\* (MAX_PAGES included), no scraper is ever constructed and no URL fetched,
\* and the process ends with the error line as its only output and a
\* nonzero exit code.
C17_MissingTargetIsFatal ==
    target \in {Absent, EnvValue(NoUrl)} =>
        /\ ~constructed
        /\ fetched = <<>>
        /\ pc \in {"main", "exited"}
        /\ pc = "exited" =>
              /\ stdout = <<Line("error")>>
              /\ exit_code \notin {<<>>, <<0>>}

\* C14: when the evaluate of one enabled extractor raised, the page is not
\* dropped: its record is appended to pages, with an empty sample for that
\* extractor and the fields of the enabled extractors before it intact.
C14_ExtractorFailureContained ==
    (throws # "none" /\ pc = "loop") =>
        /\ InQueue(pages, url)
        /\ SampleField(throws) \in DOMAIN record
        /\ Size(record[SampleField(throws)]) = 0
        /\ \A i \in 1..Len(Extractors) :
              (Extractors[i] # throws /\ Enabled(content_types, Extractors[i]))
                  => CountField(Extractors[i]) \in DOMAIN record

\* C18: the count an extractor stores is the number of items matched, and
\* the sample of a capped extractor is the first min(count, cap) of them in
\* document order; PlaywrightScraper stores both for every enabled
\* extractor, RequestsScraper for the text.
C18_CountsAndSamples ==
    /\ \A e \in ExtractorSet :
          CountField(e) \in DOMAIN record =>
              /\ SampleField(e) \in DOMAIN record
              /\ record[CountField(e)] = doc[e]
              /\ e \in Capped =>
                    record[SampleField(e)] = Matched(Min(doc[e], Cap(e)))
    /\ (pc = "links" /\ kind = "pw") =>
          \A e \in ExtractorSet :
              Enabled(content_types, e) => CountField(e) \in DOMAIN record
    /\ (pc = "links" /\ kind = "rq") => "text_length" \in DOMAIN record

\* A page with 150 images and 100,050 characters: the counts are whole, the
\* samples hold the first 100 images and the first 100,000 characters.
C18_Witness ==
    /\ pc = "loop"
    /\ kind = "pw"
    /\ result = "ok"
    /\ doc["images"] = ImagesCap + MaxOver
    /\ record["images_count"] = ImagesCap + MaxOver
    /\ record["images"] = Matched(ImagesCap)
    /\ record["text_length"] = TextCap + MaxOver
    /\ record["text"] = Matched(TextCap)

\* C19: a record holds the sample or the count of an extractor only if the
\* content-type map enables that extractor, in both scrapers.
C19_FieldsOnlyIfEnabled ==
    \A e \in ExtractorSet :
        (SampleField(e) \in DOMAIN record \/ CountField(e) \in DOMAIN record)
            => Enabled(content_types, e)

\* C15: two runs of the same scraper class over the same site that differ
\* only in their content-type maps hold the same queue after every
\* scrape_page call and call scrape_page on the same sequence of URLs.
C15_TogglesDoNotChangeCrawl ==
    kind = kind2 => (queue = queue2 /\ fetched = fetched2)

\* C20: with the same seed, mode, budget, pages and fetch outcomes, and no
\* extractor raising, PlaywrightScraper.run and RequestsScraper.run call
\* scrape_page on the same sequence of URLs and hold records for the same
\* URLs in the same order.
C20_SameTraversal ==
    (kind # kind2 /\ throws = "none") =>
        (fetched = fetched2 /\ pages = pages2)

\* C21: a scrape_page call that returns None leaves queue, visited and
\* pages as they were when it was called, wherever the exception was raised.
C21_FailedScrapeChangesNothing ==
    [][ failures' > failures =>
            /\ queue' = at_call.queue
            /\ visited' = at_call.visited
            /\ pages' = at_call.pages ]_vars

\* C22: PlaywrightScraper never has more than one browser page open, and
\* none is open once scrape_page has returned or the loop has ended.
C22_PagesClosed ==
    kind = "pw" =>
        /\ open_pages <= 1
        /\ pc \in {"loop", "finally", "done", "raised"} => open_pages = 0

====
